---- MODULE Spec2Model ----
(***************************************************************************)
(* Model of database-migration/db_migration_tool.py:                       *)
(* DatabaseMigrationTool.perform_migration and the methods it calls        *)
(* (connect, get_tables, migrate_table, validate_migration), at the        *)
(* granularity of one chunk read / one chunk write per step.               *)
(*                                                                         *)
(* The databases are the environment: the source holds, for every table,  *)
(* the rows 1..n; the destination holds, for every table, either nothing   *)
(* (the table does not exist) or a sequence of rows.  Rows left at the     *)
(* destination by earlier activity are written 0.  Every database call     *)
(* may raise.                                                              *)
(***************************************************************************)
EXTENDS Integers, Sequences, FiniteSets, TLC

\* ------------------------------------------------------------------ bounds
MaxRows == 3      \* rows of a non-empty source table
MaxPrior == 1     \* rows a destination table may hold before the first run
MaxRuns == 2      \* invocations of main() against the same databases

\* ------------------------------------------------------------------ inputs
TableNames == {"a", "b"}
SourceTables == <<"a", "b">>          \* what the inspector lists at the source
TableLists == {<<>>, <<"a">>, <<"a", "b">>, <<"b", "a">>, <<"a", "a">>}
RowCounts == {0, 1, MaxRows}
ChunkSizes == {1, 2, MaxRows + 1}
DbTypePairs == {<<"mssql", "postgresql">>, <<"sqlite", "postgresql">>, <<"oracle", "db2">>}

VARIABLES
    source_db,        \* db_type of the source DatabaseConfig
    target_db,        \* db_type of the target DatabaseConfig
    arg_tables,       \* the `tables` argument: [is_none, list]
    chunk_size,       \* migrate_table's chunk_size
    empty_chunk,      \* whether the reader yields one empty chunk for an empty table
    src,              \* source database: table -> number of rows
    dst,              \* destination database: table -> [exists, rows]
    dst0,             \* destination database when the current run started
    source_conn,      \* self.source_conn is set
    target_conn,      \* self.target_conn is set
    migration_stats,  \* self.migration_stats
    pc,               \* position in perform_migration / migrate_table
    tables,           \* local `tables` of perform_migration
    idx,              \* position of the for loop in `tables`
    chunks_migrated,  \* local of migrate_table
    total_rows,       \* local of migrate_table
    chunk,            \* the chunk held between its read and its write
    nread,            \* chunks produced so far by the reader of this transfer
    io,               \* reads and writes issued by the current transfer
    attempts,         \* one record per migrate_table call of this run
    validations,      \* one record per validate_migration call of this run
    discovery,        \* get_tables: "not_called", "listed" or "failed"
    run,              \* number of the current run
    prev_attempts     \* attempts of the previous run

vars == <<source_db, target_db, arg_tables, chunk_size, empty_chunk, src, dst,
          dst0, source_conn, target_conn, migration_stats, pc, tables, idx,
          chunks_migrated, total_rows, chunk, nread, io, attempts,
          validations, discovery, run, prev_attempts>>

envVars == <<source_db, target_db, arg_tables, empty_chunk, src>>
locals == <<chunks_migrated, total_rows, chunk, nread, io>>

\* ----------------------------------------------------------------- helpers
Min(x, y) == IF x < y THEN x ELSE y

Rows(n) == [k \in 1..n |-> k]

Zeros(n) == [k \in 1..n |-> 0]

RECURSIVE SumLen(_)
SumLen(s) == IF s = <<>> THEN 0 ELSE Len(Head(s).batch) + SumLen(Tail(s))

RECURSIVE Concat(_)
Concat(s) == IF s = <<>> THEN <<>> ELSE Head(s).batch \o Concat(Tail(s))

IsWrite(e) == e.op = "write"

Writes(log) == SelectSeq(log, IsWrite)

\* build_connection_string: the URL scheme, or the ValueError of the else branch
BuildConnectionString(db_type) ==
    CASE db_type = "mssql" -> "mssql+pyodbc"
      [] db_type = "postgresql" \/ db_type = "aurora" -> "postgresql"
      [] db_type = "oracle" -> "oracle+cx_oracle"
      [] db_type = "mysql" -> "mysql+pymysql"
      [] OTHER -> "ValueError"

\* __init__: the fresh statistics of a tool
InitStats == [tables_migrated |-> 0, rows_migrated |-> 0, errors |-> <<>>,
              end_time |-> "None"]

\* pd.read_sql_table(..., chunksize): number of chunks the reader yields
NumChunks(n, c, e) ==
    IF n = 0 THEN (IF e THEN 1 ELSE 0) ELSE (n + c - 1) \div c

\* pd.read_sql_table(..., chunksize): the k-th chunk
ChunkAt(rows, c, k) == SubSeq(rows, (k - 1) * c + 1, Min(k * c, Len(rows)))

IfExistsAlwaysAppend(cm) == "append"

IfExistsAlwaysReplace(cm) == "replace"

\* if_exists='append' if chunks_migrated > 0 else 'replace'
IfExists(cm) == IF cm > 0 THEN "append" ELSE "replace"

\* chunk.to_sql(table, target_conn, if_exists=mode): the table afterwards
ToSql(old, batch, mode) ==
    IF mode = "replace" \/ ~old.exists
    THEN [exists |-> TRUE, rows |-> batch]
    ELSE [exists |-> TRUE, rows |-> old.rows \o batch]

\* to_sql raising: nothing written, or (replace) the table already recreated
ToSqlFailed(old, mode) ==
    IF mode = "replace" THEN {old, [exists |-> TRUE, rows |-> <<>>]} ELSE {old}

\* the two += on the success path of migrate_table
StatsAfterSuccess(stats, total) ==
    [stats EXCEPT !.tables_migrated = @ + 1, !.rows_migrated = @ + total]

StatsAfterFailureCounting(stats, msg, total) ==
    [stats EXCEPT !.errors = Append(@, msg), !.rows_migrated = @ + total]

\* the except branch of migrate_table
StatsAfterFailure(stats, msg, total) ==
    [stats EXCEPT !.errors = Append(@, msg)]

PcAfterFailureAbort == "done"

PcAfterFailureResume == "read"

\* the except branch returns False to the loop, which goes on to line 171
PcAfterFailure == "validate"

ValidationResultLoose(sc, tc) == IF sc <= tc THEN "passed" ELSE "mismatch"

\* source_count == target_count
ValidationResult(sc, tc) == IF sc = tc THEN "passed" ELSE "mismatch"

Table == tables[idx]

Connected == source_conn /\ target_conn

\* -------------------------------------------------------------------- Init
Init ==
    /\ \E p \in DbTypePairs : source_db = p[1] /\ target_db = p[2]
    /\ arg_tables \in ({[is_none |-> TRUE, list |-> <<>>]}
                       \cup {[is_none |-> FALSE, list |-> l] : l \in TableLists})
    /\ chunk_size \in ChunkSizes
    /\ empty_chunk \in BOOLEAN
    /\ src \in [TableNames -> RowCounts]
    /\ dst \in [TableNames -> ({[exists |-> FALSE, rows |-> <<>>]}
                   \cup {[exists |-> TRUE, rows |-> Zeros(n)] : n \in 0..MaxPrior})]
    /\ dst0 = dst
    /\ source_conn = FALSE
    /\ target_conn = FALSE
    /\ migration_stats = InitStats
    /\ pc = "connect"
    /\ tables = <<>>
    /\ idx = 1
    /\ chunks_migrated = 0
    /\ total_rows = 0
    /\ chunk = <<>>
    /\ nread = 0
    /\ io = <<>>
    /\ attempts = <<>>
    /\ validations = <<>>
    /\ discovery = "not_called"
    /\ run = 1
    /\ prev_attempts = <<>>

\* ----------------------------------------------------------------- actions
\* perform_migration line 161 with connect(): either engine may fail to connect
Connect ==
    /\ pc = "connect"
    /\ \E src_up \in BOOLEAN, tgt_up \in BOOLEAN :
         LET s_ok == BuildConnectionString(source_db) # "ValueError" /\ src_up
             t_ok == s_ok /\ BuildConnectionString(target_db) # "ValueError" /\ tgt_up
         IN /\ source_conn' = s_ok
            /\ target_conn' = t_ok
            /\ pc' = IF t_ok THEN "resolve" ELSE "done"
    /\ UNCHANGED <<envVars, chunk_size, dst, dst0, migration_stats, tables, idx,
                   locals, attempts, validations, discovery, run, prev_attempts>>

\* perform_migration lines 164-167 with get_tables()
Resolve ==
    /\ pc = "resolve"
    /\ IF arg_tables.is_none
       THEN \E ok \in BOOLEAN :
              /\ tables' = IF ok THEN SourceTables ELSE <<>>
              /\ discovery' = IF ok THEN "listed" ELSE "failed"
       ELSE /\ tables' = arg_tables.list
            /\ UNCHANGED discovery
    /\ idx' = 1
    /\ pc' = "loop"
    /\ UNCHANGED <<envVars, chunk_size, dst, dst0, source_conn, target_conn,
                   migration_stats, locals, attempts, validations, run,
                   prev_attempts>>

\* the for loop takes the next table and enters migrate_table (lines 169-110)
BeginTable ==
    /\ pc = "loop"
    /\ idx <= Len(tables)
    /\ chunks_migrated' = 0
    /\ total_rows' = 0
    /\ nread' = 0
    /\ chunk' = <<>>
    /\ io' = <<>>
    /\ pc' = "read"
    /\ UNCHANGED <<envVars, chunk_size, dst, dst0, source_conn, target_conn,
                   migration_stats, tables, idx, attempts, validations,
                   discovery, run, prev_attempts>>

\* the reader yields the next chunk (line 112)
ReadChunk ==
    /\ pc = "read"
    /\ nread < NumChunks(src[Table], chunk_size, empty_chunk)
    /\ chunk' = ChunkAt(Rows(src[Table]), chunk_size, nread + 1)
    /\ nread' = nread + 1
    /\ io' = Append(io, [op |-> "read", mode |-> "none", batch |-> chunk'])
    /\ pc' = "write"
    /\ UNCHANGED <<envVars, chunk_size, dst, dst0, source_conn, target_conn,
                   migration_stats, tables, idx, chunks_migrated, total_rows,
                   attempts, validations, discovery, run, prev_attempts>>

\* the loop body (lines 117-124)
WriteChunk ==
    /\ pc = "write"
    /\ LET mode == IfExists(chunks_migrated)
       IN /\ dst' = [dst EXCEPT ![Table] = ToSql(@, chunk, mode)]
          /\ io' = Append(io, [op |-> "write", mode |-> mode, batch |-> chunk])
    /\ chunks_migrated' = chunks_migrated + 1
    /\ total_rows' = total_rows + Len(chunk)
    /\ pc' = "read"
    /\ UNCHANGED <<envVars, chunk_size, dst0, source_conn, target_conn,
                   migration_stats, tables, idx, chunk, nread, attempts,
                   validations, discovery, run, prev_attempts>>

\* the reader is exhausted: lines 126-129
MigrateSucceed ==
    /\ pc = "read"
    /\ nread = NumChunks(src[Table], chunk_size, empty_chunk)
    /\ migration_stats' = StatsAfterSuccess(migration_stats, total_rows)
    /\ attempts' = Append(attempts,
          [table |-> Table, ok |-> TRUE, rows |-> total_rows,
           chunks |-> chunks_migrated, written |-> SumLen(Writes(io)),
           error |-> "none"])
    /\ pc' = "validate"
    /\ UNCHANGED <<envVars, chunk_size, dst, dst0, source_conn, target_conn,
                   tables, idx, locals, validations, discovery, run,
                   prev_attempts>>

\* a read or a write raises: lines 130-134
MigrateFail ==
    /\ pc \in {"read", "write"}
    /\ IF pc = "write"
       THEN \E d \in ToSqlFailed(dst[Table], IfExists(chunks_migrated)) :
               dst' = [dst EXCEPT ![Table] = d]
       ELSE UNCHANGED dst
    /\ migration_stats' = StatsAfterFailure(migration_stats,
          [table |-> Table, detail |-> pc], total_rows)
    /\ attempts' = Append(attempts,
          [table |-> Table, ok |-> FALSE, rows |-> total_rows,
           chunks |-> chunks_migrated, written |-> SumLen(Writes(io)),
           error |-> pc])
    /\ pc' = PcAfterFailure
    /\ UNCHANGED <<envVars, chunk_size, dst0, source_conn, target_conn,
                   tables, idx, locals, validations, discovery, run,
                   prev_attempts>>

\* line 171 with validate_migration(): the result is dropped by the caller
Validate ==
    /\ pc = "validate"
    /\ \E fault \in BOOLEAN :
         LET sc == src[Table]
             tc == Len(dst[Table].rows)
             raised == fault \/ ~dst[Table].exists
         IN validations' = Append(validations,
               [table |-> Table,
                source_count |-> IF raised THEN -1 ELSE sc,
                target_count |-> IF raised THEN -1 ELSE tc,
                result |-> IF raised THEN "error" ELSE ValidationResult(sc, tc)])
    /\ idx' = idx + 1
    /\ pc' = "loop"
    /\ UNCHANGED <<envVars, chunk_size, dst, dst0, source_conn, target_conn,
                   migration_stats, tables, locals, attempts, discovery, run,
                   prev_attempts>>

\* the loop is over: lines 173-178
Finalize ==
    /\ pc = "loop"
    /\ idx > Len(tables)
    /\ migration_stats' = [migration_stats EXCEPT !.end_time = "set"]
    /\ pc' = "done"
    /\ UNCHANGED <<envVars, chunk_size, dst, dst0, source_conn, target_conn,
                   tables, idx, locals, attempts, validations, discovery, run,
                   prev_attempts>>

\* main() is invoked again on the same databases: a new tool, a new run
Restart ==
    /\ pc = "done"
    /\ run < MaxRuns
    /\ run' = run + 1
    /\ chunk_size' \in ChunkSizes
    /\ dst0' = dst
    /\ prev_attempts' = attempts
    /\ source_conn' = FALSE
    /\ target_conn' = FALSE
    /\ migration_stats' = InitStats
    /\ pc' = "connect"
    /\ tables' = <<>>
    /\ idx' = 1
    /\ chunks_migrated' = 0
    /\ total_rows' = 0
    /\ chunk' = <<>>
    /\ nread' = 0
    /\ io' = <<>>
    /\ attempts' = <<>>
    /\ validations' = <<>>
    /\ discovery' = "not_called"
    /\ UNCHANGED <<envVars, dst>>

Next ==
    \/ Connect
    \/ Resolve
    \/ BeginTable
    \/ ReadChunk
    \/ WriteChunk
    \/ MigrateSucceed
    \/ MigrateFail
    \/ Validate
    \/ Finalize

Spec == Init /\ [][Next]_vars

\* a run is a sequential program: it keeps taking steps until it returns
FairSpec == Init /\ [][Next]_vars /\ WF_vars(Next)

\* one table, migrated by successive runs
InitRerun ==
    /\ Init
    /\ arg_tables = [is_none |-> FALSE, list |-> <<"a">>]
    /\ src["b"] = 0
    /\ ~dst["b"].exists

NextRerun == Next \/ Restart

SpecRerun == InitRerun /\ [][NextRerun]_vars

TypeOK ==
    /\ pc \in {"connect", "resolve", "loop", "read", "write", "validate", "done"}
    /\ idx \in 1..(Len(tables) + 1)
    /\ run \in 1..MaxRuns

\* ------------------------------------------------------------- properties
Succeeded(log) == {k \in DOMAIN log : log[k].ok}

RECURSIVE SumWritten(_, _)
SumWritten(log, k) ==
    IF k = 0 THEN 0
    ELSE (IF log[k].ok THEN log[k].written ELSE 0) + SumWritten(log, k - 1)

AttemptedTables(log) == [k \in DOMAIN log |-> log[k].table]

\* C1: in every state of a run, tables_migrated is the number of
\* migrate_table calls that succeeded and rows_migrated is the sum of the
\* sizes of the batches written by exactly those calls.
C1_CountInvariant ==
    /\ migration_stats.tables_migrated = Cardinality(Succeeded(attempts))
    /\ migration_stats.rows_migrated = SumWritten(attempts, Len(attempts))

C1_Witness ==
    /\ pc = "done"
    /\ \E j \in DOMAIN attempts : ~attempts[j].ok /\ attempts[j].written > 0
    /\ \E j \in DOMAIN attempts : attempts[j].ok /\ attempts[j].written > 0

\* C2 (order): once connected, the transfers attempted so far are the
\* tables of the resolved list, in its order, one attempt per position, up to
\* the position of the loop; a run that has returned has attempted all of them.
C2_AttemptsInOrder ==
    Connected /\ pc # "resolve" =>
        /\ AttemptedTables(attempts) = SubSeq(tables, 1, Len(attempts))
        /\ Len(attempts) = (IF pc \in {"loop", "read", "write"} THEN idx - 1 ELSE idx)
               - (IF pc = "done" THEN 1 ELSE 0)
        /\ pc = "done" => Len(attempts) = Len(tables)

\* C2: once the connect step has succeeded the run attempts every table of
\* the resolved list exactly once, in order, whatever transfers fail, and
\* then finishes.
C2_EveryTableAttempted ==
    /\ []C2_AttemptsInOrder
    /\ (pc = "resolve") ~> (pc = "done" /\ migration_stats.end_time = "set"
                              /\ AttemptedTables(attempts) = tables)

C2_Witness ==
    /\ pc = "done"
    /\ Len(attempts) = 2
    /\ ~attempts[1].ok
    /\ attempts[2].ok

\* C3: validate_migration is invoked only for a table whose migrate_table
\* call succeeded.
C3_ValidatedOnlyAfterSuccess ==
    \A k \in DOMAIN validations : k \in DOMAIN attempts /\ attempts[k].ok

\* C4: a failed connect step returns a report with no table attempted,
\* both counters 0 and exactly one entry in the error list, and nothing is
\* read at the source or written at the target.
C4_ConnectFailureReported ==
    pc = "done" /\ ~Connected =>
        /\ attempts = <<>>
        /\ validations = <<>>
        /\ io = <<>>
        /\ dst = dst0
        /\ migration_stats.tables_migrated = 0
        /\ migration_stats.rows_migrated = 0
        /\ Len(migration_stats.errors) = 1

ZeroBatchSuccess(k) ==
    /\ attempts[k].ok
    /\ src[attempts[k].table] = 0
    /\ attempts[k].chunks = 0
    /\ k \in DOMAIN validations

\* C5 (as stated): a succeeded transfer of an empty source table that
\* produced no batch is followed by a validation with source count 0, target
\* count 0 and result matched, whatever the destination held before the run.
C5_EmptyTableValidates ==
    \A k \in DOMAIN attempts :
        ZeroBatchSuccess(k) =>
            /\ validations[k].source_count = 0
            /\ validations[k].target_count = 0
            /\ validations[k].result = "passed"

\* C5 (amended): after a succeeded transfer of an empty source table that
\* produced no batch, the destination table is what it was before the run; a
\* validation that can count both sides has source count 0 and target count
\* the number of rows the destination held before the run, and matches
\* exactly when that number is 0; when the destination table does not exist
\* the validation fails with an error.
C5_EmptyTableKeepsDestination ==
    \A k \in DOMAIN attempts :
        ZeroBatchSuccess(k) =>
            LET t == attempts[k].table
                v == validations[k]
            IN /\ v.table = t
               /\ ~dst0[t].exists => v.result = "error"
               /\ v.result # "error" =>
                    /\ v.source_count = 0
                    /\ v.target_count = Len(dst0[t].rows)
                    /\ (v.result = "passed") <=> (Len(dst0[t].rows) = 0)

C5_Witness ==
    /\ \E k \in DOMAIN attempts :
          /\ ZeroBatchSuccess(k)
          /\ validations[k].result = "mismatch"
          /\ validations[k].target_count = MaxPrior
    /\ pc = "done"

\* C6: with an explicit table list, a table named several times is
\* transferred at most once in the run.
C6_DuplicatesCollapsed ==
    ~arg_tables.is_none =>
        \A j, k \in DOMAIN attempts :
            attempts[j].table = attempts[k].table => j = k

ValidationFaults == {k \in DOMAIN validations : validations[k].result = "error"}

TransferFailures == {k \in DOMAIN attempts : ~attempts[k].ok}

\* C7: a fault while counting rows during validation adds its text to the
\* report's error list, whereas a count mismatch adds nothing: the error list
\* holds one entry per failed transfer and one per validation fault.
C7_ValidationFaultReported ==
    Len(migration_stats.errors) =
        Cardinality(TransferFailures) + Cardinality(ValidationFaults)

\* C8: when no table list is supplied and listing the source tables fails,
\* no table is attempted and the discovery error is in the report's error
\* list; when a list is supplied, get_tables is never invoked.
C8_DiscoveryFailureAborts ==
    /\ discovery = "failed" =>
          /\ attempts = <<>>
          /\ (pc = "done" => migration_stats.errors # <<>>)
    /\ ~arg_tables.is_none => discovery = "not_called"

BothRunsSucceeded ==
    /\ run > 1
    /\ Len(prev_attempts) = 1
    /\ Len(attempts) = 1
    /\ prev_attempts[1].ok
    /\ attempts[1].ok
    /\ src[attempts[1].table] > 0

\* C9: when a non-empty table is migrated by two successive runs over the
\* same source data, with any chunk sizes, the second transfer moves as many
\* rows as the first and leaves the destination table with the rows it had
\* after the first run, which are the source's rows.
C9_RerunIdempotent ==
    BothRunsSucceeded =>
        LET t == attempts[1].table
        IN /\ attempts[1].rows = prev_attempts[1].rows
           /\ attempts[1].rows = src[t]
           /\ dst[t] = dst0[t]
           /\ dst[t] = [exists |-> TRUE, rows |-> Rows(src[t])]

C9_Witness ==
    /\ BothRunsSucceeded
    /\ attempts[1].chunks = MaxRows
    /\ prev_attempts[1].chunks = 2
    /\ pc = "done"

InTransfer == pc \in {"read", "write", "validate"}

\* C10: within one transfer the reads and writes alternate, each batch
\* being written before the next is read; the first write is a replace and
\* every later one an append, each carrying the batch just read; when the
\* transfer succeeds after n batches there are exactly n writes which together
\* carry the source's rows in order, and for n = 0 nothing is written and the
\* destination table is unchanged.
C10_ReplaceThenAppend ==
    InTransfer =>
        LET w == Writes(io)
            n == NumChunks(src[Table], chunk_size, empty_chunk)
        IN /\ \A j \in DOMAIN io :
                 /\ io[j].op = (IF j % 2 = 1 THEN "read" ELSE "write")
                 /\ (j % 2 = 0) => io[j].batch = io[j - 1].batch
           /\ \A k \in DOMAIN w :
                 /\ w[k].mode = (IF k = 1 THEN "replace" ELSE "append")
                 /\ Len(w[k].batch) <= chunk_size
           /\ pc = "read" => Len(io) = 2 * Len(w)
           /\ pc = "write" => Len(io) = 2 * Len(w) + 1
           /\ (pc = "validate" /\ attempts[Len(attempts)].ok) =>
                 /\ Len(w) = n
                 /\ attempts[Len(attempts)].chunks = n
                 /\ Concat(w) = Rows(src[Table])
                 /\ dst[Table].rows = (IF n = 0 THEN dst0[Table].rows ELSE Concat(w))
                 /\ n = 0 => io = <<>> /\ dst[Table] = dst0[Table]

C10_Witness ==
    /\ pc = "validate"
    /\ attempts[Len(attempts)].ok
    /\ Len(Writes(io)) = MaxRows
    /\ dst0[Table].rows # <<>>

JustFailed == pc = "validate" /\ ~attempts[Len(attempts)].ok

====
